---- MODULE Spec2Model ----
(***************************************************************************)
(* A state-machine model of linalg.c: a dense matrix library whose Matrix  *)
(* struct {nrows, ncols, vals} owns a malloc'd table of row pointers, each *)
(* row a calloc'd array of doubles.                                        *)
(*                                                                         *)
(* The heap is explicit: every Matrix struct is a slot of `mat`, every     *)
(* row table and every row is a block of `heap`, and `vals` holds a block  *)
(* id, so that sharing of storage between two matrices, a double free and  *)
(* a leak are all states the model can be in.  Doubles are modelled by     *)
(* small integers, on which the additions and multiplications of the code  *)
(* are exact.  Matrix_l2's sqrt is not computable on integers: the model   *)
(* carries the L2 norm as its radicand, the sum of squares s of which the  *)
(* code returns sqrt(s); sqrt(s) = 0.0 exactly when s = 0.                 *)
(*                                                                         *)
(* The program never compares or prints an address, so which free address  *)
(* malloc returns is indifferent to it: the model gives every struct an    *)
(* arena of MaxDim + 1 blocks and serves the allocations made for a struct *)
(* from its arena, lowest address first, so that equal heaps are equal     *)
(* states.  Blocks no pointer reaches any more (init_Matrix over a matrix  *)
(* that owns storage leaks them) can never be read, written or freed       *)
(* again: the model takes them out of the heap and records the leak.       *)
(*                                                                         *)
(* Callers are assumed to pass either NULL or a handle that is still       *)
(* allocated (no use of a Matrix* after delete_Matrix), and allocation is  *)
(* assumed to succeed.                                                     *)
(***************************************************************************)
EXTENDS Integers, Sequences, FiniteSets, TLC

\* ------------------------------------------------------------- bounds
\* Largest row/column count a caller requests, and largest index it passes.
MaxDim == 2
\* Callers store values in -MaxVal..MaxVal.
MaxVal == 1
\* Number of Matrix structs that can be allocated at the same time.
MaxMats == 3
\* In a run that starts from the empty heap (Spec), the caller goes on to a
\* next call only while at most MaxNonZero entries of the heap are not 0:
\* a call that stores or computes more is the last of its run.  The runs
\* that start from filled matrices (SpecAccess, SpecArith, SpecAlias) have
\* no such bound.
MaxNonZero == 0

\* ---------------------------------------------------- program constants
NULL == 0
EINVAL == 22

\* ------------------------------------------------------ derived ranges
Handles == 1..MaxMats
\* Room for every struct to own a full table and its rows.
HeapSize == MaxMats * (MaxDim + 1)
Blocks == 1..HeapSize
\* The addresses that serve the allocations made for struct M.
Arena(M) == ((M - 1) * (MaxDim + 1) + 1)..(M * (MaxDim + 1))
Dims == 0..MaxDim
PutVals == (0 - MaxVal)..MaxVal

VARIABLES
    mat,    \* [Handles -> struct]: the Matrix structs (live = allocated)
    heap,   \* [Blocks -> block]: row tables and rows
    errno,  \* the C errno
    last,   \* the last call: its name, arguments, return value, blocks freed
    fault   \* TRUE once a call has had undefined behaviour

vars == <<mat, heap, errno, last, fault>>

\* An unallocated Matrix struct slot.
NoMatrix == [live |-> FALSE, nrows |-> 0, ncols |-> 0, vals |-> NULL]
\* A block that is not allocated.
FreeBlock == [kind |-> "free", cells |-> <<>>]

\* ---------------------------------------------------------------- heap
FreeSet(hp) == {b \in Blocks : hp[b].kind = "free"}

\* malloc/calloc of a block for struct M: the lowest free address of its arena.
malloc(hp, M) ==
    CHOOSE b \in FreeSet(hp) \cap Arena(M) : \A c \in FreeSet(hp) \cap Arena(M) : b <= c

\* malloc(sizeof(Matrix)): the lowest unallocated struct slot.
mallocMatrix(m) ==
    CHOOSE h \in Handles : ~m[h].live /\ \A g \in Handles : ~m[g].live => h <= g

\* M->vals[i], or NULL when the table does not hold it.
RowPtr(hp, t, i) ==
    IF t \in Blocks /\ hp[t].kind = "table" /\ i + 1 <= Len(hp[t].cells)
    THEN hp[t].cells[i + 1]
    ELSE NULL

\* Whether M->vals[i][j] is an allocated cell.
HasCell(m, hp, M, i, j) ==
    /\ M \in Handles
    /\ RowPtr(hp, m[M].vals, i) \in Blocks
    /\ hp[RowPtr(hp, m[M].vals, i)].kind = "row"
    /\ j + 1 <= Len(hp[RowPtr(hp, m[M].vals, i)].cells)

\* M->vals[i][j]
At(m, hp, M, i, j) == hp[RowPtr(hp, m[M].vals, i)].cells[j + 1]

\* The value read by M->vals[i][j]; a read outside allocated storage is
\* undefined behaviour, reported by the caller's fault flag.
Read(m, hp, M, i, j) == IF HasCell(m, hp, M, i, j) THEN At(m, hp, M, i, j) ELSE 0

\* M->vals[i][j] = v
Write(m, hp, M, i, j, v) ==
    IF HasCell(m, hp, M, i, j)
    THEN [hp EXCEPT ![RowPtr(hp, m[M].vals, i)].cells[j + 1] = v]
    ELSE hp

\* free(b)
free(hp, b) == [hp EXCEPT ![b] = FreeBlock]

\* The blocks some pointer reaches: the table of every allocated struct and
\* the rows the table holds.
Reachable(m, hp) ==
    {b \in Blocks : \E h \in Handles :
        /\ m[h].live
        /\ \/ m[h].vals = b
           \/ \E i \in 0..MaxDim : RowPtr(hp, m[h].vals, i) = b}

\* The allocated blocks no pointer reaches.
Garbage(m, hp) == {b \in Blocks : hp[b].kind # "free"} \ Reachable(m, hp)

\* The heap hp without the blocks of S.
RECURSIVE Drop(_, _)
Drop(hp, S) ==
    IF S = {} THEN hp
    ELSE LET b == CHOOSE x \in S : TRUE
         IN Drop([hp EXCEPT ![b] = FreeBlock], S \ {b})

\* The heap without its unreachable blocks.
Collect(m, hp) == Drop(hp, Garbage(m, hp))

\* Whether init_Matrix(M, nrows, ncols) can be served: the model's statement
\* of "allocation succeeds".
BlocksNeeded(nrows, ncols) == IF nrows <= 0 \/ ncols <= 0 THEN 0 ELSE nrows + 1
HasRoom(hp, M, nrows, ncols) ==
    Cardinality(FreeSet(hp) \cap Arena(M)) >= BlocksNeeded(nrows, ncols)

\* ----------------------------------------------------------- lifecycle
\* AllocRows with malloc for calloc: the rows come back holding whatever the
\* allocator left there, here MaxVal.
RECURSIVE AllocRows_Uncleared(_, _, _, _, _, _)
AllocRows_Uncleared(hp, M, t, i, nrows, ncols) ==
    IF i >= nrows THEN hp
    ELSE LET r == malloc(hp, M)
             hp1 == [hp EXCEPT ![r] = [kind |-> "row", cells |-> [k \in 1..ncols |-> MaxVal]],
                               ![t].cells = Append(@, r)]
         IN AllocRows_Uncleared(hp1, M, t, i + 1, nrows, ncols)

\* The loop of init_Matrix from row i on: each row is calloc'd (zero filled)
\* and its address stored in the table t.
RECURSIVE AllocRows(_, _, _, _, _, _)
AllocRows(hp, M, t, i, nrows, ncols) ==
    IF i >= nrows THEN hp
    ELSE LET r == malloc(hp, M)
             hp1 == [hp EXCEPT ![r] = [kind |-> "row", cells |-> [k \in 1..ncols |-> 0]],
                               ![t].cells = Append(@, r)]
         IN AllocRows(hp1, M, t, i + 1, nrows, ncols)

\* init_Matrix(M, nrows, ncols): [mat, heap, leak, oom].  The fields are
\* overwritten without a look at the old ones: storage M owned stays
\* allocated and becomes unreachable (leak).  oom: the arena cannot serve the
\* allocation (the call is then not taken).
init_Matrix(m, hp, M, nrows, ncols) ==
    IF M = NULL THEN [mat |-> m, heap |-> hp, leak |-> FALSE, oom |-> FALSE]
    ELSE LET m0 == [m EXCEPT ![M].nrows = nrows, ![M].ncols = ncols, ![M].vals = NULL]
             lost == Garbage(m0, hp) # {}
             hp0 == Collect(m0, hp)
         IN IF nrows <= 0 \/ ncols <= 0
            THEN [mat |-> m0, heap |-> hp0, leak |-> lost, oom |-> FALSE]
            ELSE IF ~HasRoom(hp0, M, nrows, ncols)
            THEN [mat |-> m, heap |-> hp, leak |-> FALSE, oom |-> TRUE]
            ELSE LET t == malloc(hp0, M)
                     hp1 == [hp0 EXCEPT ![t] = [kind |-> "table", cells |-> <<>>]]
                 IN [mat |-> [m0 EXCEPT ![M].vals = t],
                     heap |-> AllocRows(hp1, M, t, 0, nrows, ncols),
                     leak |-> lost, oom |-> FALSE]

\* new_Matrix(nrows, ncols): [ret, mat, heap, oom].  oom: the model has no
\* struct slot left, or init_Matrix no block.
new_Matrix(m, hp, nrows, ncols) ==
    IF \A h \in Handles : m[h].live
    THEN [ret |-> NULL, mat |-> m, heap |-> hp, oom |-> TRUE]
    ELSE LET matrix == mallocMatrix(m)
             r == init_Matrix([m EXCEPT ![matrix].live = TRUE], hp, matrix, nrows, ncols)
         IN IF r.oom
            THEN [ret |-> NULL, mat |-> m, heap |-> hp, oom |-> TRUE]
            ELSE [ret |-> matrix, mat |-> r.mat, heap |-> r.heap, oom |-> FALSE]

\* The loop of deinit_Matrix from row i on; st = [heap, freed, fault].
\* free() of a block that is not an allocated row is undefined behaviour.
RECURSIVE FreeRows(_, _, _, _)
FreeRows(st, t, i, nrows) ==
    IF i >= nrows THEN st
    ELSE LET r == RowPtr(st.heap, t, i)
             ok == r \in Blocks /\ st.heap[r].kind = "row"
         IN FreeRows([heap |-> IF ok THEN free(st.heap, r) ELSE st.heap,
                      freed |-> Append(st.freed, r),
                      fault |-> st.fault \/ ~ok], t, i + 1, nrows)

\* deinit_Matrix without M->vals = NULL: the struct keeps the freed pointer.
deinit_Matrix_Dangling(m, hp, M) ==
    IF M = NULL THEN [mat |-> m, heap |-> hp, freed |-> <<>>, fault |-> FALSE]
    ELSE IF m[M].vals = NULL THEN [mat |-> m, heap |-> hp, freed |-> <<>>, fault |-> FALSE]
    ELSE LET t == m[M].vals
             st == FreeRows([heap |-> hp, freed |-> <<>>, fault |-> FALSE], t, 0, m[M].nrows)
             ok == st.heap[t].kind = "table"
         IN [mat |-> [m EXCEPT ![M].nrows = 0, ![M].ncols = 0],
             heap |-> IF ok THEN free(st.heap, t) ELSE st.heap,
             freed |-> Append(st.freed, t),
             fault |-> st.fault \/ ~ok]

\* deinit_Matrix without the reset of M->nrows and M->ncols.
deinit_Matrix_KeepDims(m, hp, M) ==
    IF M = NULL THEN [mat |-> m, heap |-> hp, freed |-> <<>>, fault |-> FALSE]
    ELSE IF m[M].vals = NULL THEN [mat |-> m, heap |-> hp, freed |-> <<>>, fault |-> FALSE]
    ELSE LET t == m[M].vals
             st == FreeRows([heap |-> hp, freed |-> <<>>, fault |-> FALSE], t, 0, m[M].nrows)
             ok == st.heap[t].kind = "table"
         IN [mat |-> [m EXCEPT ![M].vals = NULL],
             heap |-> IF ok THEN free(st.heap, t) ELSE st.heap,
             freed |-> Append(st.freed, t),
             fault |-> st.fault \/ ~ok]

\* deinit_Matrix(M): [mat, heap, freed, fault]; freed lists the blocks handed
\* to free(), in order.
deinit_Matrix(m, hp, M) ==
    IF M = NULL THEN [mat |-> m, heap |-> hp, freed |-> <<>>, fault |-> FALSE]
    ELSE IF m[M].vals = NULL THEN [mat |-> m, heap |-> hp, freed |-> <<>>, fault |-> FALSE]
    ELSE LET t == m[M].vals
             st == FreeRows([heap |-> hp, freed |-> <<>>, fault |-> FALSE], t, 0, m[M].nrows)
             ok == st.heap[t].kind = "table"
         IN [mat |-> [m EXCEPT ![M].vals = NULL, ![M].nrows = 0, ![M].ncols = 0],
             heap |-> IF ok THEN free(st.heap, t) ELSE st.heap,
             freed |-> Append(st.freed, t),
             fault |-> st.fault \/ ~ok]

\* delete_Matrix(M): deinit_Matrix, then the struct itself is freed.
delete_Matrix(m, hp, M) ==
    IF M = NULL THEN [mat |-> m, heap |-> hp, freed |-> <<>>, fault |-> FALSE]
    ELSE LET d == deinit_Matrix(m, hp, M)
         IN [d EXCEPT !.mat = [d.mat EXCEPT ![M] = NoMatrix]]

\* -------------------------------------------------------------- access
\* Matrix_get with the row bound off by one (i > M->nrows for i >= M->nrows).
Matrix_get_OffByOne(m, hp, e, M, i, j) ==
    IF M = NULL \/ m[M].vals = NULL \/ i < 0 \/ j < 0 \/ i > m[M].nrows \/ j >= m[M].ncols
    THEN [ret |-> 0, errno |-> EINVAL, fault |-> FALSE]
    ELSE [ret |-> Read(m, hp, M, i, j), errno |-> e, fault |-> ~HasCell(m, hp, M, i, j)]

\* Matrix_get(M, i, j) with errno = e before the call: [ret, errno, fault].
Matrix_get(m, hp, e, M, i, j) ==
    IF M = NULL \/ m[M].vals = NULL \/ i < 0 \/ j < 0 \/ i >= m[M].nrows \/ j >= m[M].ncols
    THEN [ret |-> 0, errno |-> EINVAL, fault |-> FALSE]
    ELSE [ret |-> Read(m, hp, M, i, j), errno |-> e, fault |-> ~HasCell(m, hp, M, i, j)]

\* Matrix_put with the column index dropped (M->vals[i][0] = val).
Matrix_put_FirstColumn(m, hp, M, i, j, val) ==
    IF M = NULL \/ m[M].vals = NULL \/ i < 0 \/ j < 0 \/ i >= m[M].nrows \/ j >= m[M].ncols
    THEN [ret |-> 1, heap |-> hp, fault |-> FALSE]
    ELSE [ret |-> 0, heap |-> Write(m, hp, M, i, 0, val), fault |-> ~HasCell(m, hp, M, i, 0)]

\* Matrix_put(M, i, j, val): [ret, heap, fault].
Matrix_put(m, hp, M, i, j, val) ==
    IF M = NULL \/ m[M].vals = NULL \/ i < 0 \/ j < 0 \/ i >= m[M].nrows \/ j >= m[M].ncols
    THEN [ret |-> 1, heap |-> hp, fault |-> FALSE]
    ELSE [ret |-> 0, heap |-> Write(m, hp, M, i, j, val), fault |-> ~HasCell(m, hp, M, i, j)]

\* ---------------------------------------------------------- arithmetic
\* The nested loops of Matrix_add over ret, from cell number k on (row
\* k \div ncols, column k % ncols): ret[i][j] = A[i][j] + B[i][j].
RECURSIVE AddLoop(_, _, _, _, _, _)
AddLoop(m, hp, R, A, B, k) ==
    IF k >= m[R].nrows * m[R].ncols THEN hp
    ELSE LET i == k \div m[R].ncols
             j == k % m[R].ncols
         IN AddLoop(m, Write(m, hp, R, i, j, Read(m, hp, A, i, j) + Read(m, hp, B, i, j)),
                    R, A, B, k + 1)

\* Whether every cell the loops of Matrix_add / Matrix_mult touch is allocated.
AddInBounds(m, hp, R, A, B) ==
    \A i \in 0..(m[R].nrows - 1), j \in 0..(m[R].ncols - 1) :
        HasCell(m, hp, R, i, j) /\ HasCell(m, hp, A, i, j) /\ HasCell(m, hp, B, i, j)

\* Matrix_add with the column half of the shape test missing.
Matrix_add_RowsOnly(m, hp, A, B) ==
    IF A = NULL \/ B = NULL \/ m[A].vals = NULL \/ m[B].vals = NULL
    THEN [ret |-> NULL, mat |-> m, heap |-> hp, oom |-> FALSE, fault |-> FALSE]
    ELSE IF ~(m[A].nrows = m[B].nrows)
    THEN [ret |-> NULL, mat |-> m, heap |-> hp, oom |-> FALSE, fault |-> FALSE]
    ELSE LET n == new_Matrix(m, hp, m[A].nrows, m[B].ncols)
         IN IF n.oom
            THEN [ret |-> NULL, mat |-> m, heap |-> hp, oom |-> TRUE, fault |-> FALSE]
            ELSE [ret |-> n.ret, mat |-> n.mat,
                  heap |-> AddLoop(n.mat, n.heap, n.ret, A, B, 0),
                  oom |-> FALSE,
                  fault |-> ~AddInBounds(n.mat, n.heap, n.ret, A, B)]

\* Matrix_add that, instead of new_Matrix, makes ret a struct copy of A
\* (ret->vals = A->vals) and sums into it.
Matrix_add_Shallow(m, hp, A, B) ==
    IF A = NULL \/ B = NULL \/ m[A].vals = NULL \/ m[B].vals = NULL
    THEN [ret |-> NULL, mat |-> m, heap |-> hp, oom |-> FALSE, fault |-> FALSE]
    ELSE IF ~(m[A].nrows = m[B].nrows /\ m[B].ncols = m[A].ncols)
    THEN [ret |-> NULL, mat |-> m, heap |-> hp, oom |-> FALSE, fault |-> FALSE]
    ELSE IF \A h \in Handles : m[h].live
    THEN [ret |-> NULL, mat |-> m, heap |-> hp, oom |-> TRUE, fault |-> FALSE]
    ELSE LET m1 == [m EXCEPT ![mallocMatrix(m)] = [m[A] EXCEPT !.live = TRUE]]
         IN [ret |-> mallocMatrix(m), mat |-> m1,
             heap |-> AddLoop(m1, hp, mallocMatrix(m), A, B, 0),
             oom |-> FALSE, fault |-> FALSE]

\* Matrix_add(A, B): [ret, mat, heap, oom, fault]; ret = NULL for an invalid call.
Matrix_add(m, hp, A, B) ==
    IF A = NULL \/ B = NULL \/ m[A].vals = NULL \/ m[B].vals = NULL
    THEN [ret |-> NULL, mat |-> m, heap |-> hp, oom |-> FALSE, fault |-> FALSE]
    ELSE IF ~(m[A].nrows = m[B].nrows /\ m[B].ncols = m[A].ncols)
    THEN [ret |-> NULL, mat |-> m, heap |-> hp, oom |-> FALSE, fault |-> FALSE]
    ELSE LET n == new_Matrix(m, hp, m[A].nrows, m[B].ncols)
         IN IF n.oom
            THEN [ret |-> NULL, mat |-> m, heap |-> hp, oom |-> TRUE, fault |-> FALSE]
            ELSE [ret |-> n.ret, mat |-> n.mat,
                  heap |-> AddLoop(n.mat, n.heap, n.ret, A, B, 0),
                  oom |-> FALSE,
                  fault |-> ~AddInBounds(n.mat, n.heap, n.ret, A, B)]

\* The triple loop of Matrix_mult, from step x on: step x has
\* k = x % A->ncols, j = (x \div A->ncols) % ret->ncols and
\* i = x \div (A->ncols * ret->ncols); ret[i][j] += A[i][k] * B[k][j].
\* w is the heap after step x, computed before step x + 1 is taken.
RECURSIVE MultLoop(_, _, _, _, _, _)
MultLoop(m, hp, R, A, B, x) ==
    IF x >= m[R].nrows * m[R].ncols * m[A].ncols THEN hp
    ELSE LET k == x % m[A].ncols
             j == (x \div m[A].ncols) % m[R].ncols
             i == x \div (m[A].ncols * m[R].ncols)
         IN CHOOSE h \in {MultLoop(m, w, R, A, B, x + 1) :
                            w \in {Write(m, hp, R, i, j,
                                         Read(m, hp, R, i, j)
                                            + Read(m, hp, A, i, k) * Read(m, hp, B, k, j))}} : TRUE

MultInBounds(m, hp, R, A, B) ==
    \A i \in 0..(m[R].nrows - 1), j \in 0..(m[R].ncols - 1), k \in 0..(m[A].ncols - 1) :
        HasCell(m, hp, R, i, j) /\ HasCell(m, hp, A, i, k) /\ HasCell(m, hp, B, k, j)

\* Matrix_mult with the usual conformance test (A->ncols == B->nrows) in the
\* place of the library's two-sided one.
Matrix_mult_Conformant(m, hp, A, B) ==
    IF A = NULL \/ B = NULL \/ m[A].vals = NULL \/ m[B].vals = NULL
    THEN [ret |-> NULL, mat |-> m, heap |-> hp, oom |-> FALSE, fault |-> FALSE]
    ELSE IF ~(m[A].ncols = m[B].nrows)
    THEN [ret |-> NULL, mat |-> m, heap |-> hp, oom |-> FALSE, fault |-> FALSE]
    ELSE LET n == new_Matrix(m, hp, m[A].nrows, m[B].ncols)
         IN IF n.oom
            THEN [ret |-> NULL, mat |-> m, heap |-> hp, oom |-> TRUE, fault |-> FALSE]
            ELSE [ret |-> n.ret, mat |-> n.mat,
                  heap |-> MultLoop(n.mat, n.heap, n.ret, A, B, 0),
                  oom |-> FALSE,
                  fault |-> ~MultInBounds(n.mat, n.heap, n.ret, A, B)]

\* Matrix_mult(A, B): [ret, mat, heap, oom, fault]; ret = NULL for an invalid call.
Matrix_mult(m, hp, A, B) ==
    IF A = NULL \/ B = NULL \/ m[A].vals = NULL \/ m[B].vals = NULL
    THEN [ret |-> NULL, mat |-> m, heap |-> hp, oom |-> FALSE, fault |-> FALSE]
    ELSE IF ~(m[A].nrows = m[B].ncols /\ m[A].ncols = m[B].nrows)
    THEN [ret |-> NULL, mat |-> m, heap |-> hp, oom |-> FALSE, fault |-> FALSE]
    ELSE LET n == new_Matrix(m, hp, m[A].nrows, m[B].ncols)
         IN IF n.oom
            THEN [ret |-> NULL, mat |-> m, heap |-> hp, oom |-> TRUE, fault |-> FALSE]
            ELSE [ret |-> n.ret, mat |-> n.mat,
                  heap |-> MultLoop(n.mat, n.heap, n.ret, A, B, 0),
                  oom |-> FALSE,
                  fault |-> ~MultInBounds(n.mat, n.heap, n.ret, A, B)]

\* The loops of Matrix_l1 from cell number k on: result += |A[i][j]|.
RECURSIVE L1Loop(_, _, _, _, _)
L1Loop(m, hp, A, k, result) ==
    IF k >= m[A].nrows * m[A].ncols THEN result
    ELSE LET toAdd == Read(m, hp, A, k \div m[A].ncols, k % m[A].ncols)
         IN L1Loop(m, hp, A, k + 1,
                   result + (IF toAdd < 0 THEN toAdd * (0 - 1) ELSE toAdd))

\* Whether every cell of A the norms read is allocated.
AllCells(m, hp, A) ==
    \A i \in 0..(m[A].nrows - 1), j \in 0..(m[A].ncols - 1) : HasCell(m, hp, A, i, j)

\* Matrix_l1 without errno = EINVAL on its invalid path.
Matrix_l1_Silent(m, hp, e, A) ==
    IF A = NULL \/ m[A].vals = NULL \/ m[A].nrows <= 0 \/ m[A].ncols <= 0
    THEN [ret |-> 0, errno |-> e, fault |-> FALSE]
    ELSE [ret |-> L1Loop(m, hp, A, 0, 0), errno |-> e, fault |-> ~AllCells(m, hp, A)]

\* Matrix_l1(A) with errno = e before the call: [ret, errno, fault].
Matrix_l1(m, hp, e, A) ==
    IF A = NULL \/ m[A].vals = NULL \/ m[A].nrows <= 0 \/ m[A].ncols <= 0
    THEN [ret |-> 0, errno |-> EINVAL, fault |-> FALSE]
    ELSE [ret |-> L1Loop(m, hp, A, 0, 0), errno |-> e, fault |-> ~AllCells(m, hp, A)]

\* The loops of Matrix_l2 from cell number k on: ret += pow(A[i][j], 2).
RECURSIVE L2Loop(_, _, _, _, _)
L2Loop(m, hp, A, k, ret) ==
    IF k >= m[A].nrows * m[A].ncols THEN ret
    ELSE LET x == Read(m, hp, A, k \div m[A].ncols, k % m[A].ncols)
         IN L2Loop(m, hp, A, k + 1, ret + x * x)

\* Matrix_l2 with the argument check of Matrix_l1 copied in, errno included.
Matrix_l2_Signalling(m, hp, e, A) ==
    IF A = NULL \/ m[A].vals = NULL \/ m[A].nrows <= 0 \/ m[A].ncols <= 0
    THEN {[ret |-> 0, errno |-> EINVAL, fault |-> FALSE]}
    ELSE {[ret |-> L2Loop(m, hp, A, 0, 0), errno |-> e, fault |-> ~AllCells(m, hp, A)]}

\* Matrix_l2(A) with errno = e before the call: the set of outcomes
\* [ret, errno, fault], ret the radicand s of the returned sqrt(s).  The code
\* checks neither vals nor the dimensions: with vals = NULL and both
\* dimensions positive it dereferences NULL, which is undefined (any value
\* may come back).  With a zero dimension no entry is read.
Matrix_l2(m, hp, e, A) ==
    IF A = NULL THEN {[ret |-> 0, errno |-> e, fault |-> FALSE]}
    ELSE IF AllCells(m, hp, A)
    THEN {[ret |-> L2Loop(m, hp, A, 0, 0), errno |-> e, fault |-> FALSE]}
    ELSE {[ret |-> s, errno |-> e, fault |-> TRUE] : s \in 0..1}

\* ------------------------------------------------------- state machine
\* The record of a call: its name, arguments and return value, the blocks it
\* handed to free(), and whether it left allocated storage unreachable.
Call(op, M, N, i, j, val, ret, freed, leak) ==
    [op |-> op, M |-> M, N |-> N, i |-> i, j |-> j, val |-> val, ret |-> ret,
     freed |-> freed, leak |-> leak]

\* No call has returned a result the caller still holds.
NoCall == Call("none", NULL, NULL, 0, 0, 0, 0, <<>>, FALSE)

\* What a caller may pass as a Matrix*: NULL or an allocated struct.
Live == {h \in Handles : mat[h].live}
Args == Live \cup {NULL}

Init ==
    /\ mat = [h \in Handles |-> NoMatrix]
    /\ heap = [b \in Blocks |-> FreeBlock]
    /\ errno = 0
    /\ last = NoCall
    /\ fault = FALSE

Construct(r, c) ==
    \E n \in {new_Matrix(mat, heap, r, c)} :
       /\ ~n.oom
       /\ mat' = n.mat
       /\ heap' = n.heap
       /\ last' = Call("new", NULL, NULL, r, c, 0, n.ret, <<>>, FALSE)
       /\ UNCHANGED <<errno, fault>>

Reinitialize(M, r, c) ==
    \E n \in {init_Matrix(mat, heap, M, r, c)} :
       /\ ~n.oom
       /\ mat' = n.mat
       /\ heap' = n.heap
       /\ last' = Call("init", M, NULL, r, c, 0, 0, <<>>, n.leak)
       /\ UNCHANGED <<errno, fault>>

Release(M) ==
    \E d \in {deinit_Matrix(mat, heap, M)} :
       /\ mat' = d.mat
       /\ heap' = d.heap
       /\ last' = Call("deinit", M, NULL, 0, 0, 0, 0, d.freed, FALSE)
       /\ fault' = (fault \/ d.fault)
       /\ UNCHANGED errno

Destroy(M) ==
    \E d \in {delete_Matrix(mat, heap, M)} :
       /\ mat' = d.mat
       /\ heap' = d.heap
       /\ last' = Call("delete", M, NULL, 0, 0, 0, 0, d.freed, FALSE)
       /\ fault' = (fault \/ d.fault)
       /\ UNCHANGED errno

Get(M, i, j) ==
    \E g \in {Matrix_get(mat, heap, errno, M, i, j)} :
       /\ errno' = g.errno
       /\ last' = Call("get", M, NULL, i, j, 0, g.ret, <<>>, FALSE)
       /\ fault' = (fault \/ g.fault)
       /\ UNCHANGED <<mat, heap>>

Put(M, i, j, val) ==
    \E p \in {Matrix_put(mat, heap, M, i, j, val)} :
       /\ heap' = p.heap
       /\ last' = Call("put", M, NULL, i, j, val, p.ret, <<>>, FALSE)
       /\ fault' = (fault \/ p.fault)
       /\ UNCHANGED <<mat, errno>>

Add(A, B) ==
    \E a \in {Matrix_add(mat, heap, A, B)} :
       /\ ~a.oom
       /\ mat' = a.mat
       /\ heap' = a.heap
       /\ last' = Call("add", A, B, 0, 0, 0, a.ret, <<>>, FALSE)
       /\ fault' = (fault \/ a.fault)
       /\ UNCHANGED errno

Multiply(A, B) ==
    \E p \in {Matrix_mult(mat, heap, A, B)} :
       /\ ~p.oom
       /\ mat' = p.mat
       /\ heap' = p.heap
       /\ last' = Call("mult", A, B, 0, 0, 0, p.ret, <<>>, FALSE)
       /\ fault' = (fault \/ p.fault)
       /\ UNCHANGED errno

L1Norm(A) ==
    \E n \in {Matrix_l1(mat, heap, errno, A)} :
       /\ errno' = n.errno
       /\ last' = Call("l1", A, NULL, 0, 0, 0, n.ret, <<>>, FALSE)
       /\ fault' = (fault \/ n.fault)
       /\ UNCHANGED <<mat, heap>>

L2Norm(A) ==
    \E n \in Matrix_l2(mat, heap, errno, A) :
       /\ errno' = n.errno
       /\ last' = Call("l2", A, NULL, 0, 0, 0, n.ret, <<>>, FALSE)
       /\ fault' = (fault \/ n.fault)
       /\ UNCHANGED <<mat, heap>>

\* The caller takes the result of the call that returned and goes on.
Return ==
    /\ last # NoCall
    /\ last' = NoCall
    /\ UNCHANGED <<mat, heap, errno, fault>>

\* The number of entries of rows b.. of the heap that are not 0.
RECURSIVE NonZero(_, _)
NonZero(hp, b) ==
    IF b > HeapSize THEN 0
    ELSE (IF hp[b].kind = "row"
          THEN Cardinality({k \in 1..Len(hp[b].cells) : hp[b].cells[k] # 0})
          ELSE 0) + NonZero(hp, b + 1)

\* The bound on the contents in a run from the empty heap.
Thin == NonZero(heap, 1) <= MaxNonZero

\* One call of the library, by a caller that holds no pending result.
CallStep ==
    /\ last = NoCall
    /\ \/ \E r \in Dims, c \in Dims : Construct(r, c)
       \/ \E M \in Args, r \in Dims, c \in Dims : Reinitialize(M, r, c)
       \/ \E M \in Args : Release(M)
       \/ \E M \in Args : Destroy(M)
       \/ \E M \in Args, i \in Dims, j \in Dims : Get(M, i, j)
       \/ \E M \in Args, i \in Dims, j \in Dims, val \in PutVals : Put(M, i, j, val)
       \/ \E A \in Args, B \in Args : Add(A, B)
       \/ \E A \in Args, B \in Args : Multiply(A, B)
       \/ \E A \in Args : L1Norm(A)
       \/ \E A \in Args : L2Norm(A)

Next == CallStep \/ (Return /\ Thin)

\* Any sequence of calls, from the empty heap.
Spec == Init /\ [][Next]_vars

\* ------------------------------------------- runs from filled matrices
\* The heap after Matrix_put(M, i, j, f[k]) for every cell k = i * ncols + j
\* of M from cell k on.
RECURSIVE Filled(_, _, _, _, _)
Filled(m, hp, M, f, k) ==
    IF k >= m[M].nrows * m[M].ncols THEN hp
    ELSE Filled(m, Matrix_put(m, hp, M, k \div m[M].ncols, k % m[M].ncols, f[k]).heap,
                M, f, k + 1)

\* The state after new_Matrix(r, c) on the state [mat, heap] st.
Built(st, r, c) ==
    LET n == new_Matrix(st.mat, st.heap, r, c) IN [mat |-> n.mat, heap |-> n.heap]

Empty == [mat |-> [h \in Handles |-> NoMatrix], heap |-> [b \in Blocks |-> FreeBlock]]

\* One matrix of any requested shape, as new_Matrix leaves it.
InitAccess ==
    /\ \E r \in Dims, c \in Dims :
          \E s1 \in {Built(Empty, r, c)} :
             /\ mat = s1.mat
             /\ heap = s1.heap
    /\ errno = 0
    /\ last = NoCall
    /\ fault = FALSE

NextAccess ==
    \/ /\ last = NoCall
       /\ \/ \E M \in Args, r \in Dims, c \in Dims : Reinitialize(M, r, c)
          \/ \E M \in Args : Release(M)
          \/ \E M \in Args, i \in Dims, j \in Dims : Get(M, i, j)
          \/ \E M \in Args, i \in Dims, j \in Dims, val \in PutVals : Put(M, i, j, val)
          \/ \E A \in Args : L1Norm(A)
          \/ \E A \in Args : L2Norm(A)
    \/ Return

\* Any sequence of accesses, norms, releases and reinitialisations of one
\* matrix: every content in PutVals is reached.
SpecAccess == InitAccess /\ [][NextAccess]_vars

\* Two matrices A (struct 1) and B (struct 2) of any requested shapes, every
\* entry of each set by Matrix_put to any value of PutVals.
InitArith ==
    /\ \E ra \in Dims, ca \in Dims, rb \in Dims, cb \in Dims :
          \E s2 \in {Built(Built(Empty, ra, ca), rb, cb)} :
          \E fa \in [0..(s2.mat[1].nrows * s2.mat[1].ncols - 1) -> PutVals] :
          \E ha \in {Filled(s2.mat, s2.heap, 1, fa, 0)} :
          \E fb \in [0..(s2.mat[2].nrows * s2.mat[2].ncols - 1) -> PutVals] :
             /\ mat = s2.mat
             /\ heap = Filled(s2.mat, ha, 2, fb, 0)
    /\ errno = 0
    /\ last = NoCall
    /\ fault = FALSE

NextArith ==
    /\ last = NoCall
    /\ \/ \E A \in Args, B \in Args : Add(A, B)
       \/ \E A \in Args, B \in Args : Multiply(A, B)

\* One Matrix_add or Matrix_mult on any two operands.
SpecArith == InitArith /\ [][NextArith]_vars

\* Two matrices A (struct 1) and B (struct 2) of any requested shapes, every
\* entry of A set to MaxVal and every entry of B to -MaxVal.
InitAlias ==
    /\ \E ra \in Dims, ca \in Dims, rb \in Dims, cb \in Dims :
          \E s2 \in {Built(Built(Empty, ra, ca), rb, cb)} :
             /\ mat = s2.mat
             /\ heap = Filled(s2.mat,
                              Filled(s2.mat, s2.heap, 1, [k \in 0..(MaxDim * MaxDim) |-> MaxVal], 0),
                              2, [k \in 0..(MaxDim * MaxDim) |-> 0 - MaxVal], 0)
    /\ errno = 0
    /\ last = NoCall
    /\ fault = FALSE

\* The caller keeps the matrix Matrix_add or Matrix_mult returned and goes on.
ReturnResult ==
    /\ last.op \in {"add", "mult"}
    /\ last.ret # NULL
    /\ Return

NextAlias ==
    \/ /\ last = NoCall
       /\ \/ \E A \in Args, B \in Args : Add(A, B)
          \/ \E A \in Args, B \in Args : Multiply(A, B)
          \/ \E A \in Args : L1Norm(A)
          \/ \E A \in Args : L2Norm(A)
          \/ \E M \in Args, i \in Dims, j \in Dims : Get(M, i, j)
          \/ \E M \in Args, i \in Dims, j \in Dims, val \in PutVals : Put(M, i, j, val)
          \/ \E M \in Args : Release(M)
          \/ \E M \in Args : Destroy(M)
    \/ ReturnResult

\* A call on two filled matrices, and a call after a Matrix_add or
\* Matrix_mult whose result the caller kept.
SpecAlias == InitAlias /\ [][NextAlias]_vars

\* ------------------------------------------------------------ properties
\* The step is the call op, made by a caller that holds no pending result.
Called(op) == last = NoCall /\ last'.op = op

\* The condition under which the spec has Get and Put fail.
InvalidIndex(m, M, i, j) ==
    M = NULL \/ m[M].vals = NULL \/ i >= m[M].nrows \/ j >= m[M].ncols

\* The blocks matrix h owns: its row table and its rows.
Owned(m, hp, h) ==
    IF m[h].vals = NULL THEN {}
    ELSE {m[h].vals} \cup ({RowPtr(hp, m[h].vals, i) : i \in 0..(m[h].nrows - 1)} \ {NULL})

\* The step leaves every struct and every block as it was.
NothingChanged == mat' = mat /\ heap' = heap /\ fault' = fault

\* C2: Put(M, i, j, v) on a matrix with storage and in-bounds (i, j) returns 0,
\* and a Get(M, i, j) made right after it returns v and does not signal,
\* whatever Puts came before.
C2_PutGetRoundTrip ==
    (last.op = "put" /\ ~InvalidIndex(mat, last.M, last.i, last.j)) =>
        /\ last.ret = 0
        /\ Matrix_get(mat, heap, 0, last.M, last.i, last.j)
              = [ret |-> last.val, errno |-> 0, fault |-> FALSE]

\* A Put of -MaxVal into the last cell of a full-size matrix that already
\* holds other non-zero entries.
C2_Witness ==
    /\ last.op = "put" /\ last.M # NULL /\ last.ret = 0
    /\ last.i = MaxDim - 1 /\ last.j = MaxDim - 1 /\ last.val = 0 - MaxVal
    /\ Read(mat, heap, last.M, 0, 0) = MaxVal
    /\ Read(mat, heap, last.M, last.i, last.j) = last.val

\* C3: Get and Put fail exactly when M is absent, has no storage, i >= nrows
\* or j >= ncols.  Then Get returns 0.0 with errno = EINVAL, Put returns 1,
\* and no struct and no entry changes; otherwise Get returns the entry and
\* leaves errno alone, and Put returns 0 and stores the value.
C3_Step ==
    /\ Called("get") =>
          IF InvalidIndex(mat, last'.M, last'.i, last'.j)
          THEN last'.ret = 0 /\ errno' = EINVAL /\ NothingChanged
          ELSE /\ last'.ret = At(mat, heap, last'.M, last'.i, last'.j)
               /\ errno' = errno /\ NothingChanged
    /\ Called("put") =>
          IF InvalidIndex(mat, last'.M, last'.i, last'.j)
          THEN last'.ret = 1 /\ errno' = errno /\ NothingChanged
          ELSE /\ last'.ret = 0
               /\ At(mat', heap', last'.M, last'.i, last'.j) = last'.val
               /\ fault' = fault

\* C3: every step of every run satisfies C3_Step.
C3_FailExactlyWhenInvalid == [][C3_Step]_vars

\* Get(M, nrows, 0) on a matrix with storage: failed, with the signal raised.
C3_Witness ==
    /\ last.op = "get" /\ last.M # NULL /\ mat[last.M].vals # NULL
    /\ last.i = mat[last.M].nrows /\ last.j = 0
    /\ last.ret = 0 /\ errno = EINVAL

\* C8: on a matrix without storage, or an absent one, L1Norm returns 0.0 and
\* sets errno to EINVAL, and L2Norm returns 0.0 and leaves errno as it was.
C8_Step ==
    /\ (Called("l1") /\ (last'.M = NULL \/ mat[last'.M].vals = NULL)) =>
          last'.ret = 0 /\ errno' = EINVAL /\ NothingChanged
    /\ (Called("l2") /\ (last'.M = NULL \/ mat[last'.M].vals = NULL)) =>
          last'.ret = 0 /\ errno' = errno /\ NothingChanged

\* C8: every step of every run satisfies C8_Step.
C8_NormsWithoutStorage == [][C8_Step]_vars

\* L2Norm of a matrix with a zero row count, the signal still clear.
C8_Witness ==
    /\ last.op = "l2" /\ last.M # NULL /\ mat[last.M].vals = NULL
    /\ mat[last.M].nrows = 0 /\ mat[last.M].ncols = MaxDim
    /\ last.ret = 0 /\ errno = 0

\* C1: for r > 0 and c > 0 the matrix Construct(r, c) returns has nrows = r,
\* ncols = c, and Get(M, i, j) returns 0.0 for every 0 <= i < r, 0 <= j < c
\* without raising the error signal.
C1_ConstructZeroFilled ==
    (last.op = "new" /\ last.i > 0 /\ last.j > 0) =>
        /\ last.ret \in Live
        /\ mat[last.ret].nrows = last.i
        /\ mat[last.ret].ncols = last.j
        /\ \A i \in 0..(last.i - 1), j \in 0..(last.j - 1) :
              Matrix_get(mat, heap, 0, last.ret, i, j)
                 = [ret |-> 0, errno |-> 0, fault |-> FALSE]

\* A full-size matrix constructed while another matrix with storage is live.
C1_Witness ==
    /\ last.op = "new" /\ last.i = MaxDim /\ last.j = MaxDim /\ last.ret \in Live
    /\ \E h \in Live \ {last.ret} : mat[h].vals # NULL

\* The condition under which Matrix_l1 has nothing to sum.
InvalidNorm(m, A) ==
    A = NULL \/ m[A].vals = NULL \/ m[A].nrows <= 0 \/ m[A].ncols <= 0

\* The call that returned last was an invalid Get or an invalid L1Norm.
LastInvalid ==
    \/ last.op = "get" /\ InvalidIndex(mat, last.M, last.i, last.j)
    \/ last.op = "l1" /\ InvalidNorm(mat, last.M)

\* C6 as stated: right after a Get or an L1Norm, errno = EINVAL if and only if
\* that call was invalid.
C6_SignalIffInvalid ==
    last.op \in {"get", "l1"} => (errno = EINVAL <=> LastInvalid)

\* C6 as the code has it: an invalid Get or L1Norm sets errno to EINVAL and a
\* valid one leaves errno as it found it, so right after the call
\* errno = EINVAL if and only if the call was invalid or errno was EINVAL
\* before it.
C6_Step ==
    (Called("get") \/ Called("l1")) =>
        /\ LastInvalid' => errno' = EINVAL
        /\ ~LastInvalid' => errno' = errno
        /\ errno = 0 => (errno' = EINVAL <=> LastInvalid')

\* C6 as the code has it: every step of every run satisfies C6_Step.
C6_SignalSetOnlyByInvalid == [][C6_Step]_vars

\* A valid L1Norm whose genuine result is 0.0, the signal clear.
C6_Witness ==
    /\ last.op = "l1" /\ ~InvalidNorm(mat, last.M)
    /\ last.ret = 0 /\ errno = 0

\* C7: Release(M) on a matrix with storage hands each of its rows and its row
\* table to free() exactly once and leaves nrows = 0, ncols = 0, vals = NULL;
\* on an absent handle or a matrix without storage it changes and frees
\* nothing, so a second Release is a no-op; Destroy(absent) is a no-op.
C7_Step ==
    /\ Called("deinit") =>
          /\ IF last'.M = NULL \/ mat[last'.M].vals = NULL
             THEN last'.freed = <<>> /\ NothingChanged
             ELSE /\ Len(last'.freed) = mat[last'.M].nrows + 1
                  /\ Cardinality(Owned(mat, heap, last'.M)) = mat[last'.M].nrows + 1
                  /\ {last'.freed[k] : k \in 1..Len(last'.freed)} = Owned(mat, heap, last'.M)
                  /\ \A b \in Owned(mat, heap, last'.M) : heap[b].kind # "free"
                  /\ \A b \in Blocks :
                        heap'[b] = IF b \in Owned(mat, heap, last'.M) THEN FreeBlock ELSE heap[b]
                  /\ mat' = [mat EXCEPT ![last'.M] =
                                [live |-> TRUE, nrows |-> 0, ncols |-> 0, vals |-> NULL]]
                  /\ fault' = fault
          /\ deinit_Matrix(mat', heap', last'.M)
                = [mat |-> mat', heap |-> heap', freed |-> <<>>, fault |-> FALSE]
    /\ (Called("delete") /\ last'.M = NULL) => last'.freed = <<>> /\ NothingChanged

\* C7: every step of every run satisfies C7_Step.
C7_ReleaseFreesOnce == [][C7_Step]_vars

\* A full-size matrix released while another matrix keeps its storage.
C7_Witness ==
    /\ last.op = "deinit" /\ last.M \in Live /\ Len(last.freed) = MaxDim + 1
    /\ mat[last.M].vals = NULL /\ mat[last.M].nrows = 0 /\ mat[last.M].ncols = 0
    /\ \E h \in Live \ {last.M} : mat[h].vals # NULL

\* C10: in every reachable state a live matrix has storage if and only if
\* nrows > 0 and ncols > 0, so Matrix_l2, which tests neither, reads no entry
\* of a matrix without storage.
C10_StorageIffPositiveDims ==
    /\ \A h \in Live : mat[h].vals # NULL <=> (mat[h].nrows > 0 /\ mat[h].ncols > 0)
    /\ \A h \in Live : \A o \in Matrix_l2(mat, heap, errno, h) : ~o.fault
    /\ ~fault

\* L2Norm of a released matrix while a matrix with one zero dimension and a
\* matrix with storage are live.
C10_Witness ==
    /\ last.op = "l2" /\ last.M \in Live /\ last.ret = 0
    /\ mat[last.M].vals = NULL /\ mat[last.M].nrows = 0 /\ mat[last.M].ncols = 0
    /\ \E h \in Live : mat[h].vals = NULL /\ mat[h].nrows > 0
    /\ \E h \in Live : mat[h].vals # NULL

\* The condition under which the spec has Add return Invalid.
AddInvalid(m, A, B) ==
    \/ A = NULL \/ B = NULL \/ m[A].vals = NULL \/ m[B].vals = NULL
    \/ m[A].nrows # m[B].nrows \/ m[A].ncols # m[B].ncols

\* C4: Add(A, B) returns NULL exactly when A or B is absent or without
\* storage or their shapes differ; otherwise the result has the shape of A and
\* its entry (i, j) is A[i][j] + B[i][j] for every in-bounds (i, j).
C4_Step ==
    Called("add") =>
        /\ last'.ret = NULL <=> AddInvalid(mat, last'.M, last'.N)
        /\ last'.ret # NULL =>
              /\ last'.ret \in Handles
              /\ mat'[last'.ret].nrows = mat[last'.M].nrows
              /\ mat'[last'.ret].ncols = mat[last'.M].ncols
              /\ \A i \in 0..(mat[last'.M].nrows - 1), j \in 0..(mat[last'.M].ncols - 1) :
                    /\ HasCell(mat', heap', last'.ret, i, j)
                    /\ At(mat', heap', last'.ret, i, j)
                          = At(mat, heap, last'.M, i, j) + At(mat, heap, last'.N, i, j)
              /\ fault' = fault

\* C4: every step of every run satisfies C4_Step.
C4_AddEntrywise == [][C4_Step]_vars

\* A full-size sum of two different matrices with entries of both signs.
C4_Witness ==
    /\ last.op = "add" /\ last.ret # NULL /\ last.M # last.N
    /\ mat[last.ret].nrows = MaxDim /\ mat[last.ret].ncols = MaxDim
    /\ Read(mat, heap, last.ret, 0, 0) = 2 * MaxVal
    /\ Read(mat, heap, last.ret, 0, 1) = 0 - MaxVal
    /\ Read(mat, heap, last.ret, 1, 0) = 0 - (2 * MaxVal)

\* The condition under which the spec has Multiply return Invalid.
MultInvalid(m, A, B) ==
    \/ A = NULL \/ B = NULL \/ m[A].vals = NULL \/ m[B].vals = NULL
    \/ ~(m[A].nrows = m[B].ncols /\ m[A].ncols = m[B].nrows)

\* The sum over k' in 0..k of A[i][k'] * B[k'][j].
RECURSIVE Dot(_, _, _, _, _, _, _)
Dot(m, hp, A, B, i, j, k) ==
    IF k < 0 THEN 0
    ELSE Dot(m, hp, A, B, i, j, k - 1) + At(m, hp, A, i, k) * At(m, hp, B, k, j)

\* C5: Multiply(A, B) returns NULL exactly when A or B is absent or without
\* storage or not (A.nrows = B.ncols and A.ncols = B.nrows); otherwise the
\* result is A.nrows x B.ncols and its entry (i, j) is the sum over k in
\* 0..A.ncols-1 of A[i][k] * B[k][j].
C5_Step ==
    Called("mult") =>
        /\ last'.ret = NULL <=> MultInvalid(mat, last'.M, last'.N)
        /\ last'.ret # NULL =>
              /\ last'.ret \in Handles
              /\ mat'[last'.ret].nrows = mat[last'.M].nrows
              /\ mat'[last'.ret].ncols = mat[last'.N].ncols
              /\ \A i \in 0..(mat[last'.M].nrows - 1), j \in 0..(mat[last'.N].ncols - 1) :
                    /\ HasCell(mat', heap', last'.ret, i, j)
                    /\ At(mat', heap', last'.ret, i, j)
                          = Dot(mat, heap, last'.M, last'.N, i, j, mat[last'.M].ncols - 1)
              /\ fault' = fault

\* C5: every step of every run satisfies C5_Step.
C5_MultiplyRowsByColumns == [][C5_Step]_vars

\* A full-size A with entries of both signs times the identity: the product
\* is A.
C5_Witness ==
    /\ last.op = "mult" /\ last.ret # NULL /\ last.M # last.N
    /\ mat[last.M].nrows = MaxDim /\ mat[last.M].ncols = MaxDim
    /\ \A i \in 0..(MaxDim - 1), j \in 0..(MaxDim - 1) :
          /\ Read(mat, heap, last.N, i, j) = (IF i = j THEN 1 ELSE 0)
          /\ Read(mat, heap, last.ret, i, j) = Read(mat, heap, last.M, i, j)
    /\ Read(mat, heap, last.M, 0, 1) = 0 - MaxVal
    /\ Read(mat, heap, last.M, 1, 0) = MaxVal

\* The step leaves the struct of matrix h and every block h owns as they were.
Untouched(h) == mat'[h] = mat[h] /\ \A b \in Owned(mat, heap, h) : heap'[b] = heap[b]

\* No block belongs to two allocated structs.
NoSharing(m, hp) ==
    \A h \in Handles, g \in Handles :
        (h # g /\ m[h].live /\ m[g].live) => Owned(m, hp, h) \cap Owned(m, hp, g) = {}

\* C9: Add, Multiply, L1Norm, L2Norm and Get leave every existing matrix as it
\* was, also with both operands the same matrix; the storage of a matrix Add
\* or Multiply returns is freshly allocated and shared with no other matrix;
\* a Put or a Release changes no matrix but its own argument.
C9_Step ==
    /\ (Called("add") \/ Called("mult") \/ Called("l1") \/ Called("l2") \/ Called("get")) =>
          \A h \in Live : Untouched(h)
    /\ ((Called("add") \/ Called("mult")) /\ last'.ret # NULL) =>
          /\ last'.ret \notin Live
          /\ \A b \in Owned(mat', heap', last'.ret) : heap[b].kind = "free"
    /\ (Called("put") \/ Called("deinit")) =>
          \A h \in Live \ {last'.M} : Untouched(h)
    /\ NoSharing(mat', heap')

\* C9: every step of every run satisfies C9_Step.
C9_NoMutationNoAliasing == [][C9_Step]_vars

\* A Put into the matrix Add or Multiply returned, with A and B as they were
\* built.
C9_Witness ==
    /\ last.op = "put" /\ last.ret = 0 /\ last.M \notin {1, 2} /\ last.val # 0
    /\ Read(mat, heap, last.M, last.i, last.j) = last.val
    /\ mat[1].nrows = MaxDim /\ mat[1].ncols = MaxDim
    /\ mat[2].nrows = MaxDim /\ mat[2].ncols = MaxDim
    /\ \A i \in 0..(MaxDim - 1), j \in 0..(MaxDim - 1) :
          /\ Read(mat, heap, 1, i, j) = MaxVal
          /\ Read(mat, heap, 2, i, j) = 0 - MaxVal

====
